---- MODULE Spec2Model ----
(***************************************************************************)
(* Model of the Wizard-of-Oz relay (src/app.py): a Flask-SocketIO server   *)
(* that relays typed events between an operator console and a participant  *)
(* client and appends one CSV row per relayed event to wizard_log.csv.     *)
(*                                                                         *)
(* Scheduling.  The server is created with async_mode='gevent'             *)
(* (app.py:7) and served by one gevent WSGIServer (app.py:139-142).  Every *)
(* handler runs in a greenlet of one OS thread; a greenlet gives up the    *)
(* processor only in a gevent-aware blocking call.  The handlers contain   *)
(* none (os.path.exists, open, write and print block the thread; emit      *)
(* queues the packet), so each handler runs to completion and is one       *)
(* action here.  The order of the effects inside a handler is kept in      *)
(* last.effects.                                                           *)
(*                                                                         *)
(* Text.  A Python string is a sequence of tokens; a token is one          *)
(* character that matters to the log format (comma, double quote, newline, *)
(* space) or an atom standing for a run of ordinary characters.            *)
(***************************************************************************)
EXTENDS FiniteSets, Naturals, Sequences, TLC

VARIABLES
    connected,  \* sids of the sockets the transport holds open
    wizard,     \* sids in the Socket.IO room 'wizard'
    nextSid,    \* number of sids the transport has issued
    logExists,  \* os.path.exists(LOG_PATH)
    logFile,    \* content of LOG_PATH, a sequence of tokens
    writable,   \* whether LOG_PATH can be opened for writing
    clock,      \* the value the next datetime.utcnow() returns
    handled,    \* number of relay events handled so far
    last        \* the most recent handler run: its input, the sessions and
                \* the room as it found them, and its effects, in order

vars == <<connected, wizard, nextSid, logExists, logFile, writable, clock,
          handled, last>>

(* Bounds of the model. *)
MaxSids == 2
MaxEvents == 2
\* Longest field value, in tokens, and number of events, where the field
\* values range over the characters of the log format.
MaxLen == 1
MaxTextEvents == 1

Sids == 1..MaxSids

(***************************************************************************)
(* Python values                                                           *)
(***************************************************************************)
PyStr(toks) == [t |-> "str", v |-> toks]
PyDict(kv) == [t |-> "dict", v |-> kv]
None == [t |-> "none", v |-> <<>>]
\* Marks a key that the received dict does not hold.
Absent == [t |-> "absent", v |-> <<>>]
Empty == PyStr(<<>>)

\* dict.get(key, default)
GetD(d, key, default) == IF d[key].t = "absent" THEN default ELSE d[key]
\* dict.get(key)
Get(d, key) == GetD(d, key, None)

Truthy(x) == x.t # "none" /\ x.v # <<>>
\* x or y
Or(x, y) == IF Truthy(x) THEN x ELSE y

\* str(x), which is also how an f-string renders {x}
Str(x) ==
    CASE x.t = "none" -> <<"None">>
      [] x.t = "str" -> x.v
      [] x.t = "dict" ->
            IF x.v = <<>> THEN <<"{", "}">>
            ELSE <<"{", "'", x.v[1], "'", ":", " ", x.v[2], "}">>

Whitespace == {" ", "\n"}

RECURSIVE LStrip(_)
LStrip(s) == IF s # <<>> /\ Head(s) \in Whitespace THEN LStrip(Tail(s)) ELSE s

RECURSIVE RStrip(_)
RStrip(s) ==
    IF s # <<>> /\ s[Len(s)] \in Whitespace
    THEN RStrip(SubSeq(s, 1, Len(s) - 1))
    ELSE s

\* str.strip()
Strip(s) == RStrip(LStrip(s))

Q == <<"\"">>
Comma == <<",">>

\* datetime.utcnow().isoformat() + "Z"
utcnow(t) == <<"ts" \o ToString(t), "Z">>

(***************************************************************************)
(* The audit log                                                           *)
(***************************************************************************)
header ==
    <<"timestamp", ",", "action_type", ",", "action_id", ",", "description",
      ",", "expected_effect", ",", "participant_response", ",",
      "observer_note", "\n">>

\* log_row with the exists-check lost: the header is written on every call.
log_row_header_always(exists, file, row) ==
    [exists |-> TRUE, file |-> file \o header \o row \o <<"\n">>]

\* log_row with the row written in mode "w" instead of "a".
log_row_truncate(exists, file, row) ==
    [exists |-> TRUE, file |-> row \o <<"\n">>]

\* The state of LOG_PATH after log_row(row), from its state before.
log_row(exists, file, row) ==
    LET created == IF exists THEN file ELSE header
    IN  [exists |-> TRUE, file |-> created \o row \o <<"\n">>]

(***************************************************************************)
(* Handler bodies: the effects of one handler run, in program order        *)
(***************************************************************************)
LogStep(row) == [op |-> "log", ev |-> "", data |-> None, aud |-> "", row |-> row]
EmitStep(ev, data, aud) ==
    [op |-> "emit", ev |-> ev, data |-> data, aud |-> aud, row |-> <<>>]
JoinStep(room) ==
    [op |-> "join", ev |-> "", data |-> None, aud |-> room, row |-> <<>>]

\* on_connect with the presence notice sent to every socket.
on_connect_broadcast(sid) ==
    << EmitStep("status",
                [msg |-> PyStr(<<"connected">>), sid |-> sid], "sender"),
       EmitStep("participant_status", [connected |-> TRUE], "broadcast") >>

\* on_connect with an audit row written for the presence change.
on_connect_logs(sid) ==
    << LogStep(<<"presence", ",", "connect">>),
       EmitStep("status",
                [msg |-> PyStr(<<"connected">>), sid |-> sid], "sender"),
       EmitStep("participant_status", [connected |-> TRUE], "wizard") >>

on_connect(sid) ==
    << EmitStep("status",
                [msg |-> PyStr(<<"connected">>), sid |-> sid], "sender"),
       EmitStep("participant_status", [connected |-> TRUE], "wizard") >>

\* on_disconnect with the presence notice sent to every socket.
on_disconnect_broadcast(sid) ==
    << EmitStep("participant_status", [connected |-> FALSE], "broadcast") >>

on_disconnect(sid) ==
    << EmitStep("participant_status", [connected |-> FALSE], "wizard") >>

on_join_wizard(sid) ==
    << JoinStep("wizard"),
       EmitStep("status",
                [msg |-> PyStr(<<"joined_wizard">>), sid |-> sid], "sender") >>

\* handle_trigger with the broadcast moved before the log write.
handle_trigger_forward_first(sid, data, now) ==
    LET timestamp == utcnow(now)
        desc == Str(GetD(data, "payload", Empty))
        note == GetD(data, "note", Empty)
        row == timestamp \o Comma \o Str(Get(data, "type")) \o Comma
                 \o Str(Get(data, "id")) \o Comma \o Q \o desc \o Q \o Comma
                 \o Q \o Str(note) \o Q \o Comma \o Comma \o Q \o Q
    IN  << EmitStep("action", data, "broadcast"),
           LogStep(Strip(row)),
           EmitStep("ack",
                    [status |-> PyStr(<<"sent">>), id |-> Get(data, "id")],
                    "sender") >>

\* handle_trigger with broadcast=True left out of the 'action' emit.
handle_trigger_no_broadcast(sid, data, now) ==
    LET timestamp == utcnow(now)
        desc == Str(GetD(data, "payload", Empty))
        note == GetD(data, "note", Empty)
        row == timestamp \o Comma \o Str(Get(data, "type")) \o Comma
                 \o Str(Get(data, "id")) \o Comma \o Q \o desc \o Q \o Comma
                 \o Q \o Str(note) \o Q \o Comma \o Comma \o Q \o Q
    IN  << LogStep(Strip(row)),
           EmitStep("action", data, "sender"),
           EmitStep("ack",
                    [status |-> PyStr(<<"sent">>), id |-> Get(data, "id")],
                    "sender") >>

\* handle_trigger with the note written in the observer_note column.
handle_trigger_note_in_observer_note(sid, data, now) ==
    LET timestamp == utcnow(now)
        desc == Str(GetD(data, "payload", Empty))
        note == GetD(data, "note", Empty)
        row == timestamp \o Comma \o Str(Get(data, "type")) \o Comma
                 \o Str(Get(data, "id")) \o Comma \o Q \o desc \o Q \o Comma
                 \o Q \o Q \o Comma \o Comma \o Q \o Str(note) \o Q
    IN  << LogStep(Strip(row)),
           EmitStep("action", data, "broadcast"),
           EmitStep("ack",
                    [status |-> PyStr(<<"sent">>), id |-> Get(data, "id")],
                    "sender") >>

handle_trigger(sid, data, now) ==
    LET timestamp == utcnow(now)
        desc == Str(GetD(data, "payload", Empty))
        note == GetD(data, "note", Empty)
        row == timestamp \o Comma \o Str(Get(data, "type")) \o Comma
                 \o Str(Get(data, "id")) \o Comma \o Q \o desc \o Q \o Comma
                 \o Q \o Str(note) \o Q \o Comma \o Comma \o Q \o Q
    IN  << LogStep(Strip(row)),
           EmitStep("action", data, "broadcast"),
           EmitStep("ack",
                    [status |-> PyStr(<<"sent">>), id |-> Get(data, "id")],
                    "sender") >>

\* on_participant_ack with a reply to the sender added.
on_participant_ack_replies(sid, data, now) ==
    LET timestamp == utcnow(now)
        row == timestamp \o Comma \o <<"ack">> \o Comma
                 \o Str(Get(data, "id")) \o Comma
                 \o Q \o <<"participant ack">> \o Q \o Comma \o Q \o Q
                 \o Comma \o Str(GetD(data, "response", Empty)) \o Comma
                 \o Q \o Str(GetD(data, "note", Empty)) \o Q
    IN  << LogStep(Strip(row)),
           EmitStep("ack",
                    [status |-> PyStr(<<"received">>), id |-> Get(data, "id")],
                    "sender") >>

\* on_participant_ack with the default of data.get("note", "") left out.
on_participant_ack_note_no_default(sid, data, now) ==
    LET timestamp == utcnow(now)
        row == timestamp \o Comma \o <<"ack">> \o Comma
                 \o Str(Get(data, "id")) \o Comma
                 \o Q \o <<"participant ack">> \o Q \o Comma \o Q \o Q
                 \o Comma \o Str(GetD(data, "response", Empty)) \o Comma
                 \o Q \o Str(Get(data, "note")) \o Q
    IN  << LogStep(Strip(row)) >>

on_participant_ack(sid, data, now) ==
    LET timestamp == utcnow(now)
        row == timestamp \o Comma \o <<"ack">> \o Comma
                 \o Str(Get(data, "id")) \o Comma
                 \o Q \o <<"participant ack">> \o Q \o Comma \o Q \o Q
                 \o Comma \o Str(GetD(data, "response", Empty)) \o Comma
                 \o Q \o Str(GetD(data, "note", Empty)) \o Q
    IN  << LogStep(Strip(row)) >>

\* on_participant_input with the clock read again for the reply.
on_participant_input_second_clock(sid, payload, now) ==
    LET server_ts == utcnow(now)
        run_id == Or(Get(payload, "runId"), Empty)
        pid == Or(Get(payload, "id"), Empty)
        ptype == Or(Get(payload, "type"), PyStr(<<"participant_input">>))
        value == Or(Get(payload, "value"), Empty)
        client_ts == Or(Get(payload, "clientTs"), Empty)
        desc == <<"run:">> \o Str(run_id) \o <<";", "clientTs:">>
                  \o Str(client_ts)
        row == server_ts \o Comma \o <<"participant_input">> \o Comma
                 \o Str(pid) \o Comma \o Q \o desc \o Q \o Comma \o Q \o Q
                 \o Comma \o Str(value) \o Comma
                 \o Q \o <<"runId:">> \o Str(run_id) \o <<";", "clientTs:">>
                 \o Str(client_ts) \o Q
    IN  << LogStep(Strip(row)),
           EmitStep("participant_input",
                    [runId |-> run_id, id |-> pid, type |-> ptype,
                     value |-> value, clientTs |-> client_ts,
                     serverTs |-> server_ts], "wizard"),
           EmitStep("participant_input_ack",
                    [status |-> PyStr(<<"received">>), id |-> pid,
                     serverTs |-> utcnow(now + 1)], "sender") >>

\* on_participant_input with the reply sent before the forward.
on_participant_input_reply_first(sid, payload, now) ==
    LET server_ts == utcnow(now)
        run_id == Or(Get(payload, "runId"), Empty)
        pid == Or(Get(payload, "id"), Empty)
        ptype == Or(Get(payload, "type"), PyStr(<<"participant_input">>))
        value == Or(Get(payload, "value"), Empty)
        client_ts == Or(Get(payload, "clientTs"), Empty)
        desc == <<"run:">> \o Str(run_id) \o <<";", "clientTs:">>
                  \o Str(client_ts)
        row == server_ts \o Comma \o <<"participant_input">> \o Comma
                 \o Str(pid) \o Comma \o Q \o desc \o Q \o Comma \o Q \o Q
                 \o Comma \o Str(value) \o Comma
                 \o Q \o <<"runId:">> \o Str(run_id) \o <<";", "clientTs:">>
                 \o Str(client_ts) \o Q
    IN  << LogStep(Strip(row)),
           EmitStep("participant_input_ack",
                    [status |-> PyStr(<<"received">>), id |-> pid,
                     serverTs |-> server_ts], "sender"),
           EmitStep("participant_input",
                    [runId |-> run_id, id |-> pid, type |-> ptype,
                     value |-> value, clientTs |-> client_ts,
                     serverTs |-> server_ts], "wizard") >>

\* on_participant_input that also puts the sender into the 'wizard' room.
on_participant_input_joins_wizard(sid, payload, now) ==
    LET server_ts == utcnow(now)
        run_id == Or(Get(payload, "runId"), Empty)
        pid == Or(Get(payload, "id"), Empty)
        ptype == Or(Get(payload, "type"), PyStr(<<"participant_input">>))
        value == Or(Get(payload, "value"), Empty)
        client_ts == Or(Get(payload, "clientTs"), Empty)
        desc == <<"run:">> \o Str(run_id) \o <<";", "clientTs:">>
                  \o Str(client_ts)
        row == server_ts \o Comma \o <<"participant_input">> \o Comma
                 \o Str(pid) \o Comma \o Q \o desc \o Q \o Comma \o Q \o Q
                 \o Comma \o Str(value) \o Comma
                 \o Q \o <<"runId:">> \o Str(run_id) \o <<";", "clientTs:">>
                 \o Str(client_ts) \o Q
    IN  << LogStep(Strip(row)),
           JoinStep("wizard"),
           EmitStep("participant_input",
                    [runId |-> run_id, id |-> pid, type |-> ptype,
                     value |-> value, clientTs |-> client_ts,
                     serverTs |-> server_ts], "wizard"),
           EmitStep("participant_input_ack",
                    [status |-> PyStr(<<"received">>), id |-> pid,
                     serverTs |-> server_ts], "sender") >>

on_participant_input(sid, payload, now) ==
    LET server_ts == utcnow(now)
        run_id == Or(Get(payload, "runId"), Empty)
        pid == Or(Get(payload, "id"), Empty)
        ptype == Or(Get(payload, "type"), PyStr(<<"participant_input">>))
        value == Or(Get(payload, "value"), Empty)
        client_ts == Or(Get(payload, "clientTs"), Empty)
        desc == <<"run:">> \o Str(run_id) \o <<";", "clientTs:">>
                  \o Str(client_ts)
        row == server_ts \o Comma \o <<"participant_input">> \o Comma
                 \o Str(pid) \o Comma \o Q \o desc \o Q \o Comma \o Q \o Q
                 \o Comma \o Str(value) \o Comma
                 \o Q \o <<"runId:">> \o Str(run_id) \o <<";", "clientTs:">>
                 \o Str(client_ts) \o Q
    IN  << LogStep(Strip(row)),
           EmitStep("participant_input",
                    [runId |-> run_id, id |-> pid, type |-> ptype,
                     value |-> value, clientTs |-> client_ts,
                     serverTs |-> server_ts], "wizard"),
           EmitStep("participant_input_ack",
                    [status |-> PyStr(<<"received">>), id |-> pid,
                     serverTs |-> server_ts], "sender") >>

\* on_participant_confirm with room='wizard' replaced by a broadcast.
on_participant_confirm_broadcast(sid, data, now) ==
    LET timestamp == utcnow(now)
        pid == Or(Get(data, "id"), PyStr(<<"confirm">>))
        response == Or(Get(data, "response"), Empty)
        note == GetD(data, "note", Empty)
        row == timestamp \o Comma \o <<"participant_confirm">> \o Comma
                 \o Str(pid) \o Comma
                 \o Q \o <<"participant confirmed hearing">> \o Q \o Comma
                 \o Q \o Q \o Comma \o Str(response) \o Comma
                 \o Q \o Str(note) \o Q
    IN  << LogStep(Strip(row)),
           EmitStep("participant_input",
                    [id |-> pid, type |-> PyStr(<<"confirm">>),
                     value |-> response, serverTs |-> timestamp],
                    "broadcast") >>

\* on_participant_confirm with the response written in the observer_note
\* column and the note in the participant_response column.
on_participant_confirm_swapped_columns(sid, data, now) ==
    LET timestamp == utcnow(now)
        pid == Or(Get(data, "id"), PyStr(<<"confirm">>))
        response == Or(Get(data, "response"), Empty)
        note == GetD(data, "note", Empty)
        row == timestamp \o Comma \o <<"participant_confirm">> \o Comma
                 \o Str(pid) \o Comma
                 \o Q \o <<"participant confirmed hearing">> \o Q \o Comma
                 \o Q \o Q \o Comma \o Str(note) \o Comma
                 \o Q \o Str(response) \o Q
    IN  << LogStep(Strip(row)),
           EmitStep("participant_input",
                    [id |-> pid, type |-> PyStr(<<"confirm">>),
                     value |-> response, serverTs |-> timestamp], "wizard") >>

\* on_participant_confirm with the received id, not pid, written to the row.
on_participant_confirm_logs_raw_id(sid, data, now) ==
    LET timestamp == utcnow(now)
        pid == Or(Get(data, "id"), PyStr(<<"confirm">>))
        response == Or(Get(data, "response"), Empty)
        note == GetD(data, "note", Empty)
        row == timestamp \o Comma \o <<"participant_confirm">> \o Comma
                 \o Str(Get(data, "id")) \o Comma
                 \o Q \o <<"participant confirmed hearing">> \o Q \o Comma
                 \o Q \o Q \o Comma \o Str(response) \o Comma
                 \o Q \o Str(note) \o Q
    IN  << LogStep(Strip(row)),
           EmitStep("participant_input",
                    [id |-> pid, type |-> PyStr(<<"confirm">>),
                     value |-> response, serverTs |-> timestamp], "wizard") >>

on_participant_confirm(sid, data, now) ==
    LET timestamp == utcnow(now)
        pid == Or(Get(data, "id"), PyStr(<<"confirm">>))
        response == Or(Get(data, "response"), Empty)
        note == GetD(data, "note", Empty)
        row == timestamp \o Comma \o <<"participant_confirm">> \o Comma
                 \o Str(pid) \o Comma
                 \o Q \o <<"participant confirmed hearing">> \o Q \o Comma
                 \o Q \o Q \o Comma \o Str(response) \o Comma
                 \o Q \o Str(note) \o Q
    IN  << LogStep(Strip(row)),
           EmitStep("participant_input",
                    [id |-> pid, type |-> PyStr(<<"confirm">>),
                     value |-> response, serverTs |-> timestamp], "wizard") >>

(***************************************************************************)
(* The transport (flask_socketio): rooms, audiences, running a handler     *)
(***************************************************************************)
\* join_room that takes a socket that is already a member out of the room.
join_room_toggle(room, sid) ==
    IF sid \in room THEN room \ {sid} ELSE room \cup {sid}

\* join_room(room): adds the calling socket to the room.
join_room(room, sid) == room \cup {sid}

\* The sockets an emit reaches: emit(...) inside a handler goes to the
\* calling socket, emit(..., broadcast=True) to every connected socket,
\* socketio.emit(..., room='wizard') to the members of the room.
Audience(aud, sid, conn, room) ==
    CASE aud = "sender" -> {sid}
      [] aud = "broadcast" -> conn
      [] aud = "wizard" -> room

Effect(step, rcpt) ==
    [op |-> step.op, ev |-> step.ev, data |-> step.data, aud |-> step.aud,
     rcpt |-> rcpt, row |-> step.row]

\* Runs the steps of a handler in order.  No handler catches what log_row
\* raises, so a failed open ends the run: the steps after it are not reached.
RECURSIVE Exec(_, _, _, _)
Exec(steps, sid, conn, st) ==
    IF steps = <<>> THEN st
    ELSE
        LET s == Head(steps) IN
        CASE s.op = "log" ->
                IF ~writable
                THEN [st EXCEPT !.raised = TRUE]
                ELSE
                    LET f == log_row(st.exists, st.file, s.row) IN
                    Exec(Tail(steps), sid, conn,
                         [st EXCEPT !.exists = f.exists, !.file = f.file,
                                    !.effects = Append(@, Effect(s, {}))])
          [] s.op = "join" ->
                Exec(Tail(steps), sid, conn,
                     [st EXCEPT !.room = join_room(@, sid),
                                !.effects = Append(@, Effect(s, {sid}))])
          [] s.op = "emit" ->
                Exec(Tail(steps), sid, conn,
                     [st EXCEPT !.effects =
                         Append(@, Effect(s, Audience(s.aud, sid, conn, st.room)))])

Start == [exists |-> logExists, file |-> logFile, room |-> wizard,
          effects |-> <<>>, raised |-> FALSE]

\* A handler run: conn and room are the open sockets and the members of
\* 'wizard' when the event arrived.
Ran(handler, sid, data, now, r) ==
    [handler |-> handler, sid |-> sid, data |-> data, now |-> now,
     conn |-> connected, room |-> wizard,
     effects |-> r.effects, raised |-> r.raised]

(***************************************************************************)
(* Inputs                                                                  *)
(***************************************************************************)
S(x) == PyStr(<<x>>)

TriggerInputs ==
    { [type |-> S("audio"), id |-> S("overview_01"),
       payload |-> PyDict(<<"volume", "5">>), note |-> Empty],
      [type |-> S("text"), id |-> S("t2"), payload |-> S("hello"),
       note |-> S("n1")],
      [type |-> Absent, id |-> Absent, payload |-> Absent, note |-> Absent] }

AckInputs ==
    { [id |-> S("overview_01"), response |-> S("ok"), note |-> S("n1")],
      [id |-> S("t2"), response |-> Absent, note |-> Absent],
      [id |-> Absent, response |-> None, note |-> None] }

InputInputs ==
    { [runId |-> S("r1"), id |-> S("q1"), type |-> S("choice"),
       value |-> S("yes"), clientTs |-> S("c1")],
      [runId |-> S("r1"), id |-> Empty, type |-> S("text"), value |-> Empty,
       clientTs |-> None],
      [runId |-> Absent, id |-> Absent, type |-> Absent, value |-> Absent,
       clientTs |-> Absent] }

ConfirmInputs ==
    { [id |-> S("confirm_hearing"), response |-> S("confirmed"),
       note |-> Absent],
      [id |-> Empty, response |-> S("maybe"), note |-> S("n1")],
      [id |-> Absent, response |-> Absent, note |-> Absent] }

\* Field values over the characters that matter to the log format.
Alphabet == {"a", ",", "\"", "\n"}
Texts == UNION {[1..n -> Alphabet] : n \in 0..MaxLen}

TriggerTexts ==
    { [type |-> S("text"), id |-> PyStr(i), payload |-> PyStr(p),
       note |-> PyStr(n)] : i \in Texts, p \in Texts, n \in Texts }

AckTexts ==
    { [id |-> PyStr(i), response |-> PyStr(r), note |-> PyStr(n)] :
        i \in Texts, r \in Texts, n \in Texts }

InputTexts ==
    { [runId |-> PyStr(u), id |-> PyStr(i), type |-> S("text"),
       value |-> PyStr(v), clientTs |-> PyStr(c)] :
        u \in Texts, i \in Texts, v \in Texts, c \in Texts }

ConfirmTexts ==
    { [id |-> PyStr(i), response |-> PyStr(r), note |-> PyStr(n)] :
        i \in Texts, r \in Texts, n \in Texts }

(***************************************************************************)
(* The state machine                                                       *)
(***************************************************************************)
\* At start no socket is open and wizard_log.csv is absent.  (A file that an
\* earlier run left is the state after that run's events.)
Init ==
    /\ connected = {}
    /\ wizard = {}
    /\ nextSid = 0
    /\ logExists = FALSE
    /\ logFile = <<>>
    /\ writable = TRUE
    /\ clock = 0
    /\ handled = 0
    /\ last = [handler |-> "none", sid |-> 0, data |-> None, now |-> 0,
               conn |-> {}, room |-> {}, effects |-> <<>>, raised |-> FALSE]

\* What a handler run leaves behind: the room, the log and the run itself.
Done(handler, sid, data, r) ==
    /\ wizard' = r.room
    /\ logExists' = r.exists
    /\ logFile' = r.file
    /\ last' = Ran(handler, sid, data, clock, r)

\* A client opens a socket: the transport issues a fresh sid, registers the
\* session and calls on_connect.
connect ==
    /\ nextSid < MaxSids
    /\ LET sid == nextSid + 1
           conn == connected \cup {sid}
       IN  /\ connected' = conn
           /\ nextSid' = sid
           /\ Done("connect", sid, None,
                   Exec(on_connect(sid), sid, conn, Start))
    /\ UNCHANGED <<writable, clock, handled>>

\* disconnect with the closed socket left in its rooms.
disconnect_keeps_room(sid) ==
    /\ sid \in connected
    /\ LET r == Exec(on_disconnect(sid), sid, connected, Start)
       IN  /\ wizard' = r.room
           /\ logExists' = r.exists
           /\ logFile' = r.file
           /\ last' = Ran("disconnect", sid, None, clock, r)
    /\ connected' = connected \ {sid}
    /\ UNCHANGED <<nextSid, writable, clock, handled>>

\* A socket closes: the transport calls on_disconnect while the session is
\* still registered, then removes it from the server and from every room.
disconnect(sid) ==
    /\ sid \in connected
    /\ LET r == Exec(on_disconnect(sid), sid, connected, Start)
       IN  /\ wizard' = r.room \ {sid}
           /\ logExists' = r.exists
           /\ logFile' = r.file
           /\ last' = Ran("disconnect", sid, None, clock, r)
    /\ connected' = connected \ {sid}
    /\ UNCHANGED <<nextSid, writable, clock, handled>>

join_wizard(sid) ==
    /\ sid \in connected
    /\ Done("join_wizard", sid, None,
            Exec(on_join_wizard(sid), sid, connected, Start))
    /\ UNCHANGED <<connected, nextSid, writable, clock, handled>>

\* One relay event: the handler reads the clock once, and time moves on.
Relay(handler, sid, data, steps) ==
    /\ sid \in connected
    /\ handled < MaxEvents
    /\ Done(handler, sid, data, Exec(steps, sid, connected, Start))
    /\ clock' = clock + 1
    /\ handled' = handled + 1
    /\ UNCHANGED <<connected, nextSid, writable>>

trigger_action(sid, data) ==
    Relay("trigger_action", sid, data, handle_trigger(sid, data, clock))

participant_ack(sid, data) ==
    Relay("participant_ack", sid, data, on_participant_ack(sid, data, clock))

participant_input(sid, payload) ==
    Relay("participant_input", sid, payload,
          on_participant_input(sid, payload, clock))

participant_confirm(sid, data) ==
    Relay("participant_confirm", sid, data,
          on_participant_confirm(sid, data, clock))

\* The environment: the log destination becomes unwritable, or writable again.
StorageChange ==
    /\ writable' = ~writable
    /\ UNCHANGED <<connected, wizard, nextSid, logExists, logFile, clock,
                   handled, last>>

Next ==
    \/ connect
    \/ \E sid \in Sids : disconnect(sid)
    \/ \E sid \in Sids : join_wizard(sid)
    \/ \E sid \in Sids, data \in TriggerInputs : trigger_action(sid, data)
    \/ \E sid \in Sids, data \in AckInputs : participant_ack(sid, data)
    \/ \E sid \in Sids, payload \in InputInputs : participant_input(sid, payload)
    \/ \E sid \in Sids, data \in ConfirmInputs : participant_confirm(sid, data)

NextIO == Next \/ StorageChange

\* The events of clients whose field values range over Texts.
NextText ==
    \/ connect
    \/ \E sid \in Sids, data \in TriggerTexts :
          handled < MaxTextEvents /\ trigger_action(sid, data)
    \/ \E sid \in Sids, data \in AckTexts :
          handled < MaxTextEvents /\ participant_ack(sid, data)
    \/ \E sid \in Sids, payload \in InputTexts :
          handled < MaxTextEvents /\ participant_input(sid, payload)
    \/ \E sid \in Sids, data \in ConfirmTexts :
          handled < MaxTextEvents /\ participant_confirm(sid, data)

\* The server with a log destination that stays writable.
Spec == Init /\ [][Next]_vars

\* The server with a log destination that may become unwritable.
SpecIO == Init /\ [][NextIO]_vars

\* The server with clients that send commas, quotes and newlines.
SpecText == Init /\ [][NextText]_vars

(***************************************************************************)
(* Reading the log and the last handler run                                *)
(***************************************************************************)
\* The lines of a text, each without its newline: the text between one
\* newline and the next, and what follows the last newline, if anything.
Lines(file) ==
    LET nl == {i \in DOMAIN file : file[i] = "\n"}
        n == Cardinality(nl)
        pos(k) == IF k = 0 THEN 0
                  ELSE CHOOSE p \in nl : Cardinality({q \in nl : q <= p}) = k
        full == [k \in 1..n |-> SubSeq(file, pos(k - 1) + 1, pos(k) - 1)]
    IN  IF pos(n) = Len(file) THEN full
        ELSE Append(full, SubSeq(file, pos(n) + 1, Len(file)))

\* The cells of one delimited line: a comma outside double quotes ends a
\* cell, and the quotes that wrap a cell are not part of it.
RECURSIVE SplitCells(_, _, _, _)
SplitCells(rest, cur, quoted, acc) ==
    IF rest = <<>> THEN Append(acc, cur)
    ELSE IF Head(rest) = "\"" THEN SplitCells(Tail(rest), cur, ~quoted, acc)
    ELSE IF Head(rest) = "," /\ ~quoted
         THEN SplitCells(Tail(rest), <<>>, FALSE, Append(acc, cur))
    ELSE SplitCells(Tail(rest), Append(cur, Head(rest)), quoted, acc)

Cells(line) == SplitCells(line, <<>>, FALSE, <<>>)

HeaderLine == SubSeq(header, 1, Len(header) - 1)

\* The audit records of a log: its lines after the first.
RecordsOf(file) == IF file = <<>> THEN <<>> ELSE Tail(Lines(file))
Records == RecordsOf(logFile)
LastRecord == Records[Len(Records)]

RelayHandlers ==
    {"trigger_action", "participant_ack", "participant_input",
     "participant_confirm"}

Logs == {i \in DOMAIN last.effects : last.effects[i].op = "log"}
Emits == {i \in DOMAIN last.effects : last.effects[i].op = "emit"}
EmitsOf(ev) == {i \in Emits : last.effects[i].ev = ev}

\* The last handler run appended exactly one record, the row it built, and
\* the log holds one record per relay event handled so far.
AppendedOne ==
    LET recs == Records IN
    /\ Cardinality(Logs) = 1
    /\ Len(recs) = handled
    /\ \A i \in Logs : recs[Len(recs)] = last.effects[i].row

IsPrefix(s, t) == Len(s) <= Len(t) /\ SubSeq(t, 1, Len(s)) = s

(***************************************************************************)
(* Claims                                                                  *)
(***************************************************************************)

\* C1: every inbound trigger_action, participant_ack, participant_input and
\* participant_confirm event appends exactly one audit record, and the append
\* comes before every emit of the same event (write, then forward).
C1_OneRecordBeforeForward ==
    /\ Len(Records) = handled
    /\ last.handler \in RelayHandlers =>
          /\ AppendedOne
          /\ \A i \in Emits : \E j \in Logs : j < i

C1_Witness ==
    /\ last.handler = "participant_input"
    /\ handled = 2
    /\ Cardinality(Emits) = 2
    /\ wizard # {}

\* C2: when the audit-log append fails, the handler still forwards the event
\* to its audience and still sends the direct reply to the sender.
Forwarded(handler) ==
    CASE handler = "trigger_action" -> {"action", "ack"}
      [] handler = "participant_input" ->
            {"participant_input", "participant_input_ack"}
      [] handler = "participant_confirm" -> {"participant_input"}
      [] OTHER -> {}

C2_LogFailureStillDelivers ==
    (last.handler \in RelayHandlers /\ last.raised) =>
        \A ev \in Forwarded(last.handler) : EmitsOf(ev) # {}

\* C3: once the log file exists its first line is the 7-column header and no
\* other line is a header, however many connections write their first rows.
C3_HeaderFirstAndOnce ==
    logExists =>
        LET L == Lines(logFile) IN
        /\ Len(L) >= 1
        /\ L[1] = HeaderLine
        /\ \A i \in 2..Len(L) : L[i] # HeaderLine

C3_Witness ==
    /\ logExists
    /\ Len(Lines(logFile)) = 3
    /\ last.handler \in RelayHandlers
    /\ last.sid = 2

\* C4: the log is append-only: a step never removes or changes what the log
\* already holds, the file never disappears, and the number of records never
\* decreases.
C4_AppendOnly ==
    [][/\ logExists => logExists'
       /\ \/ logFile' = logFile
          \/ /\ IsPrefix(logFile, logFile')
             /\ IsPrefix(RecordsOf(logFile), RecordsOf(logFile'))]_vars

C4_Witness ==
    /\ Len(Records) = 2
    /\ Records[1] # Records[2]

\* C5: for a well-formed trigger_action, 'action' with the received data goes
\* to every connected client, the sender included; the sender gets 'ack'
\* {status: 'sent', id}; and exactly one record is appended whose action_type
\* is the event's type and whose action_id is the event's id.
TriggerKinds ==
    {<<"audio">>, <<"haptic">>, <<"text">>, <<"beacon">>,
     <<"inject_correction">>}

WellFormedTrigger(d) ==
    /\ d.type.t = "str" /\ d.type.v \in TriggerKinds
    /\ d.id.t = "str"

C5_TriggerDelivered ==
    (last.handler = "trigger_action" /\ WellFormedTrigger(last.data)) =>
        /\ Cardinality(EmitsOf("action")) = 1
        /\ \A i \in EmitsOf("action") :
              /\ last.effects[i].data = last.data
              /\ last.effects[i].rcpt = connected
              /\ last.sid \in last.effects[i].rcpt
        /\ Cardinality(EmitsOf("ack")) = 1
        /\ \A i \in EmitsOf("ack") :
              /\ last.effects[i].rcpt = {last.sid}
              /\ last.effects[i].data =
                    [status |-> S("sent"), id |-> last.data.id]
        /\ AppendedOne
        /\ LET cells == Cells(LastRecord)
           IN  /\ cells[2] = last.data.type.v
               /\ cells[3] = last.data.id.v

C5_Witness ==
    /\ last.handler = "trigger_action"
    /\ WellFormedTrigger(last.data)
    /\ Cardinality(connected) = 2
    /\ wizard # connected
    /\ handled = 2

\* C6: for every participant_input event the reply 'participant_input_ack'
\* carries the id that was submitted, and one timestamp is used throughout:
\* the serverTs forwarded to the operator group, the serverTs of the reply and
\* the timestamp of the audit record are the same value.
C6_InputReplyEchoesIdAndTimestamp ==
    last.handler = "participant_input" =>
        /\ Cardinality(EmitsOf("participant_input")) = 1
        /\ Cardinality(EmitsOf("participant_input_ack")) = 1
        /\ \A i \in EmitsOf("participant_input"),
              j \in EmitsOf("participant_input_ack") :
              LET fwd == last.effects[i]
                  ack == last.effects[j]
              IN  /\ ack.rcpt = {last.sid}
                  /\ last.data.id.t = "str" => ack.data.id = last.data.id
                  /\ fwd.data.serverTs = ack.data.serverTs
                  /\ Cells(LastRecord)[1] = ack.data.serverTs

C6_Witness ==
    /\ last.handler = "participant_input"
    /\ last.data.id = S("q1")
    /\ \E i \in EmitsOf("participant_input_ack") :
          last.effects[i].data.id = S("q1")
    /\ handled = 2

\* C7: a forwarded 'participant_input' event (from participant_input or
\* participant_confirm) reaches every member of the 'wizard' group at that
\* moment, the sender included when it is a member, and no other connection.
C7_ForwardToWizardMembersOnly ==
    /\ last.handler \in {"participant_input", "participant_confirm"} =>
          EmitsOf("participant_input") # {}
    /\ \A i \in EmitsOf("participant_input") :
          /\ last.effects[i].rcpt = wizard
          /\ last.sid \in wizard => last.sid \in last.effects[i].rcpt

C7_Witness ==
    /\ last.handler = "participant_confirm"
    /\ last.sid \in wizard
    /\ connected \ wizard # {}
    /\ \E i \in EmitsOf("participant_input") : last.effects[i].rcpt = {last.sid}

\* C8 as stated: for every participant_confirm event with id I and response R,
\* one record with action_type 'participant_confirm', action_id I and
\* participant_response R is appended, every operator-group member receives
\* 'participant_input' with id I, type 'confirm' and value R, and the sender
\* gets no direct reply.
ConfirmHandled(I, R) ==
    /\ AppendedOne
    /\ LET cells == Cells(LastRecord)
       IN  /\ cells[2] = <<"participant_confirm">>
           /\ cells[3] = I.v
           /\ cells[6] = R.v
    /\ Cardinality(EmitsOf("participant_input")) = 1
    /\ \A i \in EmitsOf("participant_input") :
          /\ last.effects[i].rcpt = wizard
          /\ last.effects[i].data.id = I
          /\ last.effects[i].data.type = S("confirm")
          /\ last.effects[i].data.value = R
    /\ \A i \in Emits : last.effects[i].aud # "sender"

C8_ConfirmAsStated ==
    (/\ last.handler = "participant_confirm"
     /\ last.data.id.t = "str"
     /\ last.data.response.t = "str") =>
        ConfirmHandled(last.data.id, last.data.response)

\* C8, amended: the same for every participant_confirm event whose id I is a
\* non-empty string (an empty id is replaced by 'confirm' before it is
\* logged and forwarded).
C8_ConfirmNonEmptyId ==
    (/\ last.handler = "participant_confirm"
     /\ last.data.id.t = "str" /\ last.data.id.v # <<>>
     /\ last.data.response.t = "str") =>
        ConfirmHandled(last.data.id, last.data.response)

C8_Witness ==
    /\ last.handler = "participant_confirm"
    /\ last.data.id = S("confirm_hearing")
    /\ last.data.response = S("confirmed")
    /\ wizard # {}
    /\ last.sid \notin wizard

\* C9: handling participant_ack appends exactly one audit record and sends
\* nothing: no event is forwarded and the sender gets no reply.
C9_AckLogsOnly ==
    last.handler = "participant_ack" =>
        /\ AppendedOne
        /\ Emits = {}
        /\ \A i \in DOMAIN last.effects : last.effects[i].rcpt = {}

C9_Witness ==
    /\ last.handler = "participant_ack"
    /\ wizard # {}
    /\ Cardinality(connected) = 2
    /\ handled = 2

\* C10: on every new connection the new socket gets a direct 'status'
\* acknowledgment holding its own sid, and 'participant_status'
\* {connected: true} goes to exactly the current members of the operator group.
C10_ConnectNotifies ==
    last.handler = "connect" =>
        /\ Cardinality(EmitsOf("status")) = 1
        /\ \A i \in EmitsOf("status") :
              /\ last.effects[i].rcpt = {last.sid}
              /\ last.effects[i].data.sid = last.sid
        /\ Cardinality(EmitsOf("participant_status")) = 1
        /\ \A i \in EmitsOf("participant_status") :
              /\ last.effects[i].data = [connected |-> TRUE]
              /\ last.effects[i].rcpt = wizard
              /\ last.effects[i].rcpt \cap (connected \ wizard) = {}

C10_Witness ==
    /\ last.handler = "connect"
    /\ wizard # {}
    /\ last.sid \in connected \ wizard

\* C11: when a connection that never joined the operator group disconnects,
\* 'participant_status' {connected: false} goes to the operator group and the
\* group's membership is the same after the disconnect as before it.
C11_DisconnectOfNonMember ==
    (last.handler = "disconnect" /\ last.sid \notin last.room) =>
        /\ wizard = last.room
        /\ Cardinality(EmitsOf("participant_status")) = 1
        /\ \A i \in EmitsOf("participant_status") :
              /\ last.effects[i].data = [connected |-> FALSE]
              /\ last.effects[i].rcpt = last.room

C11_Witness ==
    /\ last.handler = "disconnect"
    /\ last.sid \notin last.room
    /\ last.room # {}
    /\ wizard = last.room

\* C12: joining the operator group is idempotent: a join_wizard from a
\* connection that is already a member leaves the membership as it was; the
\* size grows by one only on the first call.
C12_JoinIdempotent ==
    last.handler = "join_wizard" =>
        /\ last.sid \in wizard
        /\ last.sid \in last.room =>
              /\ wizard = last.room
              /\ Cardinality(wizard) = Cardinality(last.room)
        /\ last.sid \notin last.room =>
              /\ wizard = last.room \cup {last.sid}
              /\ Cardinality(wizard) = Cardinality(last.room) + 1

C12_Witness ==
    /\ last.handler = "join_wizard"
    /\ last.sid \in last.room
    /\ Cardinality(wizard) = 2

\* C13: inside one handler run the steps come in the order audit append,
\* forward to the audience, direct reply to the sender: for trigger_action
\* 'action' is emitted before 'ack', for participant_input the operator-group
\* forward before 'participant_input_ack'.
Forwards == {i \in Emits : last.effects[i].aud # "sender"}
Replies == {i \in Emits : last.effects[i].aud = "sender"}

C13_LogForwardReplyOrder ==
    last.handler \in RelayHandlers =>
        /\ \A l \in Logs, f \in Forwards : l < f
        /\ \A f \in Forwards, r \in Replies : f < r
        /\ \A l \in Logs, r \in Replies : l < r
        /\ last.handler = "trigger_action" =>
              \E a \in EmitsOf("action"), k \in EmitsOf("ack") :
                  a \in Forwards /\ k \in Replies /\ a < k
        /\ last.handler = "participant_input" =>
              \E f \in EmitsOf("participant_input"),
                 k \in EmitsOf("participant_input_ack") :
                  f \in Forwards /\ k \in Replies /\ f < k

C13_Witness ==
    /\ last.handler = "participant_input"
    /\ Len(last.effects) = 3
    /\ last.effects[1].op = "log"
    /\ last.effects[2].ev = "participant_input"
    /\ last.effects[3].ev = "participant_input_ack"
    /\ last.effects[2].rcpt # {}

\* C14: handling trigger_action, participant_ack, participant_input or
\* participant_confirm leaves the set of connected sessions and the
\* operator-group membership unchanged; only connect, disconnect and
\* join_wizard change them.
C14_RelayLeavesSessionsAlone ==
    /\ last.handler \in RelayHandlers =>
          connected = last.conn /\ wizard = last.room
    /\ (connected # last.conn \/ wizard # last.room) =>
          last.handler \in {"connect", "disconnect", "join_wizard"}

C14_Witness ==
    /\ last.handler \in RelayHandlers
    /\ wizard # {}
    /\ connected # wizard
    /\ last.sid \notin wizard
    /\ handled = 2

FieldColumns(handler) ==
    CASE handler = "trigger_action" ->
            {<<"type", 2>>, <<"id", 3>>, <<"payload", 4>>, <<"note", 5>>}
      [] handler = "participant_ack" ->
            {<<"id", 3>>, <<"response", 6>>, <<"note", 7>>}
      [] handler = "participant_input" -> {<<"id", 3>>, <<"value", 6>>}
      [] handler = "participant_confirm" ->
            {<<"id", 3>>, <<"response", 6>>, <<"note", 7>>}
      [] OTHER -> {}

LoggedAndForwarded ==
    /\ AppendedOne
    /\ \A ev \in Forwarded(last.handler) : EmitsOf(ev) # {}

\* C16 as stated: when an inbound event lacks an optional field (note or
\* response), or lacks any field the handler reads, the audit record holds
\* the empty string in that field's position, and the event is still logged
\* and forwarded.
C16_AbsentFieldsEmptyAsStated ==
    last.handler \in RelayHandlers =>
        /\ LoggedAndForwarded
        /\ \A fc \in FieldColumns(last.handler) :
              last.data[fc[1]].t = "absent" =>
                  Cells(LastRecord)[fc[2]] = <<>>

\* C16, amended: when an inbound event lacks an optional field (note or
\* response), the audit record holds the empty string in that field's
\* position; and an event that lacks any field the handler reads is still
\* logged and forwarded.  (A missing type or id of trigger_action and a
\* missing id of participant_ack are written as None, a missing id of
\* participant_confirm as confirm.)
OptionalFields == {"note", "response"}

C16_AbsentOptionalFieldsEmpty ==
    last.handler \in RelayHandlers =>
        /\ LoggedAndForwarded
        /\ \A fc \in FieldColumns(last.handler) :
              (fc[1] \in OptionalFields /\ last.data[fc[1]].t = "absent") =>
                  Cells(LastRecord)[fc[2]] = <<>>

C16_Witness ==
    /\ last.handler = "participant_confirm"
    /\ last.data.response = Absent
    /\ last.data.note = Absent
    /\ last.data.id = Absent
    /\ EmitsOf("participant_input") # {}
    /\ Cells(LastRecord)[6] = <<>>
    /\ Cells(LastRecord)[7] = <<>>

\* C17 as stated: every event is recorded in the audit log, the presence
\* changes included: each connect and each disconnect appends exactly one
\* audit record.
C17_PresenceLoggedAsStated ==
    last.handler \in {"connect", "disconnect"} => Cardinality(Logs) = 1

\* C17, amended: the four relay events are recorded in the audit log and the
\* presence changes are not: a connect or a disconnect appends no audit
\* record, so the log holds exactly one record per relay event handled.
C17_PresenceNotLogged ==
    /\ last.handler \in {"connect", "disconnect"} => Logs = {}
    /\ logExists <=> handled > 0
    /\ Len(Records) = handled

C17_Witness ==
    /\ last.handler = "disconnect"
    /\ handled = 2
    /\ Len(Records) = 2
    /\ nextSid = 2

\* C18: each call of the log writer appends exactly one line with exactly
\* the 7 columns of the header, for every combination of field values over an
\* alphabet that holds the comma, the double quote and the newline.
C18_OneLineSevenColumns ==
    last.handler \in RelayHandlers =>
        LET L == Lines(logFile) IN
        /\ Len(L) = handled + 1
        /\ \A i \in DOMAIN L : Len(Cells(L[i])) = 7

\* C19: the record of a trigger_action holds the event's note in the
\* expected_effect column (5th) and nothing in the participant_response and
\* observer_note columns; the records of participant_ack and
\* participant_confirm hold the note in the observer_note column (7th).
NoteGiven == last.data.note.t \in {"str", "absent"}

C19_NoteColumns ==
    /\ (last.handler = "trigger_action" /\ NoteGiven) =>
          LET cells == Cells(LastRecord) IN
          /\ Len(cells) = 7
          /\ cells[5] = last.data.note.v
          /\ cells[6] = <<>>
          /\ cells[7] = <<>>
    /\ (last.handler \in {"participant_ack", "participant_confirm"}
        /\ NoteGiven) =>
          LET cells == Cells(LastRecord) IN
          /\ Len(cells) = 7
          /\ cells[7] = last.data.note.v
          /\ cells[5] = <<>>

C19_Witness ==
    /\ last.handler = "trigger_action"
    /\ last.data.note = S("n1")
    /\ Cells(LastRecord)[5] = <<"n1">>

\* C20: for participant_input and participant_confirm the action_id of the
\* audit record equals the id of the message forwarded to the operator group
\* (and, for participant_input, the id of the reply), also when the submitted
\* id is absent or empty: it is then '' for participant_input and 'confirm'
\* for participant_confirm.
IdMissing == last.data.id.t = "absent" \/ last.data.id = Empty

C20_SameIdLoggedAndForwarded ==
    /\ last.handler = "participant_input" =>
          /\ EmitsOf("participant_input") # {}
          /\ \A i \in EmitsOf("participant_input"),
                j \in EmitsOf("participant_input_ack") :
                /\ Cells(LastRecord)[3] = last.effects[i].data.id.v
                /\ last.effects[j].data.id = last.effects[i].data.id
                /\ IdMissing => last.effects[i].data.id = Empty
    /\ last.handler = "participant_confirm" =>
          /\ EmitsOf("participant_input") # {}
          /\ \A i \in EmitsOf("participant_input") :
                /\ Cells(LastRecord)[3] = last.effects[i].data.id.v
                /\ IdMissing => last.effects[i].data.id = S("confirm")

C20_Witness ==
    /\ last.handler = "participant_confirm"
    /\ last.data.id = Absent
    /\ Cells(LastRecord)[3] = <<"confirm">>
    /\ \E i \in EmitsOf("participant_input") :
          last.effects[i].data.id = S("confirm") /\ last.effects[i].rcpt # {}

====
